---- MODULE Spec2Model ----
(***************************************************************************)
(* Model of the parking-sssk occupancy ledgers and sensor reporter.        *)
(*                                                                         *)
(*   scripts.js      ledger kept in page variables and in localStorage     *)
(*   scripts_api.js  ledger mirrored from a REST server, asynchronous      *)
(*   Arduino sketch  edge-detecting occupancy reporter                     *)
(*                                                                         *)
(* Each program has its own variables and its own specification; a         *)
(* specification leaves the variables of the other programs unchanged.     *)
(***************************************************************************)
EXTENDS Integers, Sequences, FiniteSets, TLC

\* ------------------------------------------------------------------------
\* Bounds of the model (not program constants)
\* ------------------------------------------------------------------------
\* successful reservations issued by scripts.js before the model stops
MaxReservations == 17
\* submit handlers of scripts_api.js that may await a response at once
MaxInFlight == 2
\* times the user goes from one tab of scripts.js to the other
MaxSwitches == 1
\* page reloads while two tabs of scripts.js are open
MaxReloads == 1

\* ------------------------------------------------------------------------
\* Values shared by the two browser scripts
\* ------------------------------------------------------------------------
\* values of the <select id="tipMjesta">
TipMjesta == {"standard", "invalid"}

\* browser tabs that run scripts.js over one localStorage
Tabs == {1, 2}

\* absent localStorage item (getItem returns null)
NoData == [absent |-> TRUE]

\* the script of the page that is open
Scripts == {"scripts.js", "scripts_api.js"}

VARIABLE script

\* the user of the scripts.js tabs
VARIABLES
    focus,               \* the tab the user is at: it gets the events
    switches,            \* how often the user has changed tabs
    reloads              \* how often the user has reloaded a tab while
                         \* both were open

userVars == <<focus, switches, reloads>>

\* scripts.js
VARIABLES
    slobodnaMjesta,      \* [Tabs -> Int]  free spots, per page
    invalidMjesta,       \* [Tabs -> Int]  free restricted spots, per page
    reservationCounter,  \* [Tabs -> Int]
    rezervisiDisabled,   \* [Tabs -> BOOLEAN] rezervisiBtn.disabled
    localStorage,        \* the 'parkingData' item: NoData or a record
    lastSubmit,          \* [Tabs -> record] the last run of the submit
                         \* handler: tipMjesta, outcome, and the page
                         \* variables before and after it
    issued,              \* sequence of the counter values put into QR codes
    issuedInvalid        \* number of successful 'invalid' reservations

localVars == <<slobodnaMjesta, invalidMjesta, reservationCounter,
               rezervisiDisabled, localStorage, lastSubmit, issued,
               issuedInvalid>>

\* the release operation of the ledger over the scripts.js state
VARIABLE
    lastRelease          \* the last release: its category, the page
                         \* variables before it, and whether a reserve of
                         \* the same category has followed it at once

releaseVars == <<lastRelease>>

\* scripts_api.js
VARIABLES
    apiSlobodnaMjesta,   \* slobodnaMjesta of scripts_api.js
    apiInvalidMjesta,    \* invalidMjesta of scripts_api.js
    apiDisabled,         \* rezervisiBtn.disabled
    statusPending,       \* loadStatus is suspended at its fetch
    awaiting,            \* [TipMjesta -> Nat] submit handlers suspended at
                         \* the reserve fetch, by their tipMjesta
    apiLastEvent,        \* the last step of a submit handler: tipMjesta,
                         \* outcome, and the counts before and after it
    apiBase,             \* the counts as last set by the declarations or
                         \* by loadStatus
    apiReserved,         \* tipMjesta of the reservations made since then
    apiLastStatus        \* the answer loadStatus has resumed with on this
                         \* page, "none" before

apiVars == <<apiSlobodnaMjesta, apiInvalidMjesta, apiDisabled, statusPending,
             awaiting, apiLastEvent, apiBase, apiReserved, apiLastStatus>>

\* Arduino sketch
VARIABLES
    lastOccupancyState,  \* [0 .. NUM_SPOTS-1 -> {0, 1}] spots[i].lastOccupancyState
    sketchPc,            \* "idle": in loop(); "check": in the for loop of
                         \* checkAllSensors; "response": in the while loop
                         \* of sendToServer
    sensorIndex,         \* the i of checkAllSensors
    lastReading,         \* the last iteration of the for loop: duration,
                         \* distance, occupied, the state compared with and
                         \* the calls of sendToServer it made
    scenario             \* the readings of spot 1 since boot, as long as
                         \* they follow ScenarioReadings, and the sends made
                         \* at them

sketchVars == <<lastOccupancyState, sketchPc, sensorIndex, lastReading,
                scenario>>

\* the reports of one spot of the sketch, as sent and as received
VARIABLES
    watched,             \* the index of the spot that is watched
    reports,             \* the status of its first, its last but one and
                         \* its last call of sendToServer, "NONE" if none
    serverStatus,        \* the status of the spot the server got last
    dropped              \* calls of sendToServer for the spot since then
                         \* whose connect failed: 0 none, 1 an odd number,
                         \* 2 an even number

reportVars == <<watched, reports, serverStatus, dropped>>

\* the server of scripts_api.js (api/status, api/reserve)
VARIABLES
    srvTotal,            \* available_total of the server
    srvInvalid,          \* available_invalid of the server
    statusSnap,          \* the answer to GET /api/status on its way to the
                         \* page, NoSnap if none
    srvAnswers           \* [TipMjesta -> Seq] the answers to POST
                         \* /api/reserve on their way to the page

serverVars == <<srvTotal, srvInvalid, statusSnap, srvAnswers>>

vars == <<script, userVars, localVars, releaseVars, apiVars, serverVars,
          sketchVars, reportVars>>

\* what the steps of one program leave unchanged
notLocal == <<script, userVars, releaseVars, apiVars, serverVars, sketchVars,
              reportVars>>
notApi == <<script, userVars, localVars, releaseVars, serverVars, sketchVars,
            reportVars>>
notSketch == <<script, userVars, localVars, releaseVars, apiVars, serverVars,
               reportVars>>
\* what the steps of scripts_api.js and of its server leave unchanged
notMirror == <<script, userVars, localVars, releaseVars, sketchVars,
               reportVars>>
\* what the steps of the sketch leave unchanged, its reports apart
notReports == <<script, userVars, localVars, releaseVars, apiVars,
                serverVars>>
\* what the steps of the ledger with release leave unchanged
notLedger == <<script, userVars, apiVars, serverVars, sketchVars, reportVars>>

\* ------------------------------------------------------------------------
\* scripts.js : constants and functions
\* ------------------------------------------------------------------------
TOTAL_SPOTS == 15
\* initial value of invalidMjesta: the restricted capacity
INVALID_SPOTS == 1

\* plate inputs: sequences of characters, " " is white space
PlateInputs == {<< >>, <<" ">>, <<"A">>, <<" ", "A", " ">>}

RECURSIVE TrimLeft(_)
TrimLeft(s) ==
    IF s = << >> THEN << >>
    ELSE IF Head(s) = " " THEN TrimLeft(Tail(s)) ELSE s

RECURSIVE TrimRight(_)
TrimRight(s) ==
    IF s = << >> THEN << >>
    ELSE IF s[Len(s)] = " " THEN TrimRight(SubSeq(s, 1, Len(s) - 1)) ELSE s

\* String.prototype.trim
Trim(s) == TrimRight(TrimLeft(s))

\* (plateInput && plateInput.value) ? plateInput.value.trim() : ''
PlateValue(plate) == IF plate # << >> THEN Trim(plate) ELSE << >>

\* JavaScript a || b on numbers: 0 is falsy
OrElse(a, b) == IF a = 0 THEN b ELSE a

SaveDataWithoutCounter(s, i, c) ==
    [slobodnaMjesta |-> s, invalidMjesta |-> i, reservationCounter |-> 0]

\* the record written by saveData
SaveData(s, i, c) ==
    [slobodnaMjesta |-> s, invalidMjesta |-> i, reservationCounter |-> c]

\* the page variables set by the script's declarations
FreshPage ==
    [slobodnaMjesta |-> TOTAL_SPOTS, invalidMjesta |-> INVALID_SPOTS,
     reservationCounter |-> 0]

LoadDataIgnoringCounter(stored, cur) ==
    IF stored = NoData THEN cur
    ELSE [slobodnaMjesta |-> OrElse(stored.slobodnaMjesta, cur.slobodnaMjesta),
          invalidMjesta |-> OrElse(stored.invalidMjesta, cur.invalidMjesta),
          reservationCounter |-> cur.reservationCounter]

\* loadData: the page variables after loadData, from the stored item and
\* the current page variables
LoadData(stored, cur) ==
    IF stored = NoData THEN cur
    ELSE [slobodnaMjesta |-> OrElse(stored.slobodnaMjesta, cur.slobodnaMjesta),
          invalidMjesta |-> OrElse(stored.invalidMjesta, cur.invalidMjesta),
          reservationCounter |->
              OrElse(stored.reservationCounter, cur.reservationCounter)]

AdmissionRestrictedFirst(plateValue, tip, s, i) ==
    IF plateValue = << >> THEN "InvalidInput"
    ELSE IF tip = "invalid" /\ i <= 0 THEN "RestrictedCapacityExhausted"
    ELSE IF s <= 0 THEN "CapacityExhausted"
    ELSE "Reserved"

AdmissionNoGeneralCheck(plateValue, tip, s, i) ==
    IF plateValue = << >> THEN "InvalidInput"
    ELSE IF tip = "invalid" /\ i <= 0 THEN "RestrictedCapacityExhausted"
    ELSE "Reserved"

AdmissionNoRestrictedCheck(plateValue, tip, s, i) ==
    IF plateValue = << >> THEN "InvalidInput"
    ELSE IF s <= 0 THEN "CapacityExhausted"
    ELSE "Reserved"

\* the three early returns of the submit handler, in the order of the code
Admission(plateValue, tip, s, i) ==
    IF plateValue = << >> THEN "InvalidInput"
    ELSE IF s <= 0 THEN "CapacityExhausted"
    ELSE IF tip = "invalid" /\ i <= 0 THEN "RestrictedCapacityExhausted"
    ELSE "Reserved"

ReservedAlwaysBoth(tip, s, i) ==
    [slobodnaMjesta |-> s - 1, invalidMjesta |-> i - 1]

\* the counts after a successful reservation
Reserved(tip, s, i) ==
    [slobodnaMjesta |-> s - 1,
     invalidMjesta |-> IF tip = "invalid" THEN i - 1 ELSE i]

\* the page variables of tab t
Page(t) == SaveData(slobodnaMjesta[t], invalidMjesta[t], reservationCounter[t])

NoSubmit == [tipMjesta |-> "none", outcome |-> "none",
             before |-> SaveData(0, 0, 0), after |-> SaveData(0, 0, 0)]

NoRelease == [tipMjesta |-> "none", before |-> SaveData(0, 0, 0),
              stage |-> "none"]

\* ------------------------------------------------------------------------
\* scripts.js : operations
\* ------------------------------------------------------------------------
LocalInit ==
    /\ lastRelease = NoRelease
    /\ focus = 1
    /\ switches = 0
    /\ reloads = 0
    /\ slobodnaMjesta = [t \in Tabs |-> TOTAL_SPOTS]
    /\ invalidMjesta = [t \in Tabs |-> INVALID_SPOTS]
    /\ reservationCounter = [t \in Tabs |-> 0]
    /\ rezervisiDisabled = [t \in Tabs |-> FALSE]
    /\ localStorage = NoData
    /\ lastSubmit = [t \in Tabs |-> NoSubmit]
    /\ issued = << >>
    /\ issuedInvalid = 0

\* A page (re)load of tab t: the declarations run, then loadData.
\* updateDisplay runs only when an item was stored.
PageLoad(t) ==
    LET d == LoadData(localStorage, FreshPage) IN
    /\ script = "scripts.js"
    /\ slobodnaMjesta' = [slobodnaMjesta EXCEPT ![t] = d.slobodnaMjesta]
    /\ invalidMjesta' = [invalidMjesta EXCEPT ![t] = d.invalidMjesta]
    /\ reservationCounter' =
           [reservationCounter EXCEPT ![t] = d.reservationCounter]
    /\ rezervisiDisabled' =
           [rezervisiDisabled EXCEPT
               ![t] = IF localStorage = NoData THEN FALSE
                      ELSE d.slobodnaMjesta <= 0]
    /\ lastSubmit' = [lastSubmit EXCEPT ![t] = NoSubmit]
    /\ UNCHANGED <<localStorage, issued, issuedInvalid>>

\* The submit handler of tab t with the form's inputs.  The form's markup
\* is not among the sources: a submit event is taken to reach the handler
\* whatever rezervisiBtn.disabled is, as the handler's own checks assume.
Submit(t, tip, plate) ==
    LET outcome == Admission(PlateValue(plate), tip,
                             slobodnaMjesta[t], invalidMjesta[t])
        after == Reserved(tip, slobodnaMjesta[t], invalidMjesta[t])
        counter == reservationCounter[t] + 1
    IN
    /\ script = "scripts.js"
    /\ Len(issued) < MaxReservations
    /\ lastSubmit' =
           [lastSubmit EXCEPT
               ![t] = [tipMjesta |-> tip, outcome |-> outcome,
                       before |-> Page(t),
                       after |-> IF outcome = "Reserved"
                                 THEN SaveData(after.slobodnaMjesta,
                                               after.invalidMjesta, counter)
                                 ELSE Page(t)]]
    /\ IF outcome = "Reserved"
       THEN /\ reservationCounter' = [reservationCounter EXCEPT ![t] = counter]
            /\ slobodnaMjesta' =
                   [slobodnaMjesta EXCEPT ![t] = after.slobodnaMjesta]
            /\ invalidMjesta' =
                   [invalidMjesta EXCEPT ![t] = after.invalidMjesta]
            /\ rezervisiDisabled' =
                   [rezervisiDisabled EXCEPT
                       ![t] = after.slobodnaMjesta <= 0]
            /\ localStorage' = SaveData(after.slobodnaMjesta,
                                        after.invalidMjesta, counter)
            /\ issued' = Append(issued, counter)
            /\ issuedInvalid' =
                   IF tip = "invalid" THEN issuedInvalid + 1 ELSE issuedInvalid
       ELSE /\ rezervisiDisabled' =
                   [rezervisiDisabled EXCEPT
                       ![t] = IF outcome = "CapacityExhausted" THEN TRUE
                              ELSE @]
            /\ UNCHANGED <<slobodnaMjesta, invalidMjesta, reservationCounter,
                           localStorage, issued, issuedInvalid>>


\* Single tab: tab 1 is the only page that is open.
LocalNext ==
    \/ \E tip \in TipMjesta, plate \in PlateInputs :
           Submit(1, tip, plate) /\ UNCHANGED notLocal
    \/ PageLoad(1) /\ UNCHANGED notLocal

\* The user goes to the other tab.
SwitchTab ==
    /\ script = "scripts.js"
    /\ switches < MaxSwitches
    /\ switches' = switches + 1
    /\ focus' = CHOOSE t \in Tabs : t # focus
    /\ UNCHANGED <<script, reloads, localVars, releaseVars, apiVars,
                   serverVars, sketchVars, reportVars>>

\* Two tabs over one localStorage: both pages are open, the events go to
\* the tab the user is at.
TabsNext ==
    \/ \E t \in Tabs, tip \in TipMjesta :
           focus = t /\ Submit(t, tip, <<"A">>) /\ UNCHANGED notLocal
    \/ \E t \in Tabs :
           /\ focus = t
           /\ reloads < MaxReloads
           /\ PageLoad(t)
           /\ reloads' = reloads + 1
           /\ UNCHANGED <<script, focus, switches, releaseVars, apiVars,
                          serverVars, sketchVars, reportVars>>
    \/ SwitchTab

\* ------------------------------------------------------------------------
\* The ledger's release (spec 4.1), over the state of scripts.js.  No source
\* file defines or calls a release: it is taken from the specification.
\* ------------------------------------------------------------------------
Min(a, b) == IF a < b THEN a ELSE b

\* release: freeTotal + 1 capped at totalSpots and, for the restricted
\* category, freeRestricted + 1 capped at restrictedCapacity
Released(tip, s, i) ==
    [slobodnaMjesta |-> Min(s + 1, TOTAL_SPOTS),
     invalidMjesta |-> IF tip = "invalid" THEN Min(i + 1, INVALID_SPOTS)
                       ELSE i]

\* release(category) on the page of tab t; the record is overwritten after
\* every mutation (spec 6)
Release(t, tip) ==
    LET after == Released(tip, slobodnaMjesta[t], invalidMjesta[t]) IN
    /\ script = "scripts.js"
    /\ slobodnaMjesta' = [slobodnaMjesta EXCEPT ![t] = after.slobodnaMjesta]
    /\ invalidMjesta' = [invalidMjesta EXCEPT ![t] = after.invalidMjesta]
    /\ rezervisiDisabled' =
           [rezervisiDisabled EXCEPT ![t] = after.slobodnaMjesta <= 0]
    /\ localStorage' = SaveData(after.slobodnaMjesta, after.invalidMjesta,
                                reservationCounter[t])
    /\ lastRelease' = [tipMjesta |-> tip, before |-> Page(t),
                       stage |-> "released"]
    /\ UNCHANGED <<reservationCounter, lastSubmit, issued, issuedInvalid>>

\* lastRelease after a run of the submit handler: a reserve is a submit
\* with a plate; it closes the round trip when it is of the released
\* category and comes right after the release
ReleaseAfterSubmit(tip, plate) ==
    IF /\ lastRelease.stage = "released"
       /\ lastRelease.tipMjesta = tip
       /\ PlateValue(plate) # << >>
    THEN [lastRelease EXCEPT !.stage = "reserved"]
    ELSE NoRelease

\* the ledger of scripts.js with reserve, release and page reloads
ReleaseNext ==
    \/ \E tip \in TipMjesta, plate \in {<< >>, <<"A">>} :
           /\ Submit(1, tip, plate)
           /\ lastRelease' = ReleaseAfterSubmit(tip, plate)
           /\ UNCHANGED notLedger
    \/ /\ PageLoad(1)
       /\ lastRelease' = NoRelease
       /\ UNCHANGED notLedger
    \/ \E tip \in TipMjesta : Release(1, tip) /\ UNCHANGED notLedger

\* ------------------------------------------------------------------------
\* scripts_api.js : constants and functions
\* ------------------------------------------------------------------------
API_TOTAL_SPOTS == 5
API_INVALID_SPOTS == 1
\* maxSize = 5*1024*1024
MaxSize == 5242880

\* fileInput: no file chosen, or the size of files[0]
NoFile == -1
FileInputs == {NoFile, 1, MaxSize, MaxSize + 1}

\* answers of the server or the network to GET /api/status
StatusKinds == {"success", "failure", "notOk", "throw"}
\* available_total and available_invalid a status answer may carry
ServerTotals == 0 .. API_TOTAL_SPOTS
ServerInvalids == 0 .. API_INVALID_SPOTS
\* answers of the server or the network to POST /api/reserve
ReserveKinds == {"success", "failure", "throw"}

\* the four early returns of the submit handler, in the order of the code
ApiAdmission(file, tip, s, i) ==
    IF file = NoFile THEN "InvalidInput"
    ELSE IF file > MaxSize THEN "InvalidInput"
    ELSE IF s <= 0 THEN "CapacityExhausted"
    ELSE IF tip = "invalid" /\ i <= 0 THEN "RestrictedCapacityExhausted"
    ELSE "Requested"

\* the counts after a response with success = true
ApiReserved(tip, s, i) ==
    [slobodnaMjesta |-> s - 1,
     invalidMjesta |-> IF tip = "invalid" THEN i - 1 ELSE i]

StatusCountsWithoutOkTest(kind, total, invalid, s, i) ==
    IF kind \in {"success", "notOk"}
    THEN [slobodnaMjesta |-> total, invalidMjesta |-> invalid]
    ELSE [slobodnaMjesta |-> s, invalidMjesta |-> i]

\* the counts after loadStatus has resumed with an answer: only an answer
\* with r.ok and d.success assigns them
StatusCounts(kind, total, invalid, s, i) ==
    IF kind = "success"
    THEN [slobodnaMjesta |-> total, invalidMjesta |-> invalid]
    ELSE [slobodnaMjesta |-> s, invalidMjesta |-> i]

NoStatus == "none"

InFlight == awaiting["standard"] + awaiting["invalid"]

\* the counts of the page
ApiPage == SaveData(apiSlobodnaMjesta, apiInvalidMjesta, 0)

\* no answer to GET /api/status is on its way
NoSnap == [absent |-> TRUE]

\* ------------------------------------------------------------------------
\* scripts_api.js : operations
\* ------------------------------------------------------------------------
\* The page after the script ran: loadStatus is suspended at its fetch.
ApiInit ==
    /\ apiSlobodnaMjesta = API_TOTAL_SPOTS
    /\ apiInvalidMjesta = API_INVALID_SPOTS
    /\ apiDisabled = FALSE
    /\ statusPending = TRUE
    /\ awaiting = [k \in TipMjesta |-> 0]
    /\ apiLastEvent = NoSubmit
    /\ apiBase = [slobodnaMjesta |-> API_TOTAL_SPOTS,
                  invalidMjesta |-> API_INVALID_SPOTS]
    /\ apiReserved = << >>
    /\ apiLastStatus = NoStatus
    /\ srvTotal = API_TOTAL_SPOTS
    /\ srvInvalid = API_INVALID_SPOTS
    /\ statusSnap = NoSnap
    /\ srvAnswers = [k \in TipMjesta |-> << >>]

\* A page reload: the suspended handlers of the old page are gone.
ApiPageLoad ==
    /\ script = "scripts_api.js"
    /\ apiSlobodnaMjesta' = API_TOTAL_SPOTS
    /\ apiInvalidMjesta' = API_INVALID_SPOTS
    /\ apiDisabled' = FALSE
    /\ statusPending' = TRUE
    /\ awaiting' = [k \in TipMjesta |-> 0]
    /\ apiLastEvent' = NoSubmit
    /\ apiBase' = [slobodnaMjesta |-> API_TOTAL_SPOTS,
                   invalidMjesta |-> API_INVALID_SPOTS]
    /\ apiReserved' = << >>
    /\ apiLastStatus' = NoStatus

\* loadStatus resumes with the answer to GET /api/status.
StatusResponse(kind, total, invalid) ==
    LET after == StatusCounts(kind, total, invalid,
                              apiSlobodnaMjesta, apiInvalidMjesta)
    IN
    /\ script = "scripts_api.js"
    /\ statusPending
    /\ statusPending' = FALSE
    /\ apiSlobodnaMjesta' = after.slobodnaMjesta
    /\ apiInvalidMjesta' = after.invalidMjesta
    /\ apiLastStatus' = kind
    /\ IF kind = "success"
       THEN /\ apiDisabled' = (total <= 0)
            /\ apiBase' = [slobodnaMjesta |-> total, invalidMjesta |-> invalid]
            /\ apiReserved' = << >>
       ELSE UNCHANGED <<apiDisabled, apiBase, apiReserved>>
    /\ UNCHANGED <<awaiting, apiLastEvent>>

\* The submit handler up to its first await (or to an early return).  The
\* button stays enabled while a request is pending, so a second submit may
\* start before the first one resumes.
ApiSubmit(tip, file) ==
    LET outcome == ApiAdmission(file, tip, apiSlobodnaMjesta, apiInvalidMjesta)
    IN
    /\ script = "scripts_api.js"
    /\ outcome = "Requested" => InFlight < MaxInFlight
    /\ apiLastEvent' = [tipMjesta |-> tip, outcome |-> outcome,
                        before |-> ApiPage, after |-> ApiPage]
    /\ awaiting' = IF outcome = "Requested"
                   THEN [awaiting EXCEPT ![tip] = @ + 1]
                   ELSE awaiting
    /\ UNCHANGED <<apiSlobodnaMjesta, apiInvalidMjesta, apiDisabled,
                   statusPending, apiBase, apiReserved, apiLastStatus>>

\* A suspended submit handler resumes with the answer to POST /api/reserve.
ReserveResponse(tip, kind) ==
    LET after == ApiReserved(tip, apiSlobodnaMjesta, apiInvalidMjesta) IN
    /\ script = "scripts_api.js"
    /\ awaiting[tip] > 0
    /\ awaiting' = [awaiting EXCEPT ![tip] = @ - 1]
    /\ IF kind = "success"
       THEN /\ apiSlobodnaMjesta' = after.slobodnaMjesta
            /\ apiInvalidMjesta' = after.invalidMjesta
            /\ apiDisabled' = (after.slobodnaMjesta <= 0)
            /\ apiReserved' = Append(apiReserved, tip)
            /\ apiLastEvent' =
                   [tipMjesta |-> tip, outcome |-> "Reserved",
                    before |-> ApiPage,
                    after |-> SaveData(after.slobodnaMjesta,
                                       after.invalidMjesta, 0)]
       ELSE /\ apiLastEvent' =
                   [tipMjesta |-> tip,
                    outcome |-> IF kind = "failure" THEN "ServerRejected"
                                ELSE "NetworkUnavailable",
                    before |-> ApiPage, after |-> ApiPage]
            /\ UNCHANGED <<apiSlobodnaMjesta, apiInvalidMjesta, apiDisabled,
                           apiReserved>>
    /\ UNCHANGED <<statusPending, apiBase, apiLastStatus>>

ApiNext ==
    \/ ApiPageLoad /\ UNCHANGED notApi
    \/ \E kind \in StatusKinds, total \in ServerTotals,
          invalid \in ServerInvalids :
           StatusResponse(kind, total, invalid) /\ UNCHANGED notApi
    \/ \E tip \in TipMjesta, file \in FileInputs :
           ApiSubmit(tip, file) /\ UNCHANGED notApi
    \/ \E tip \in TipMjesta, kind \in ReserveKinds :
           ReserveResponse(tip, kind) /\ UNCHANGED notApi

\* ------------------------------------------------------------------------
\* scripts_api.js with its server.  The server is not among the sources:
\* it is taken from the specification (status is a read-only snapshot; a
\* reserve checks the free total, then the restricted count, and decrements
\* on success).  This page is the only client, the network loses nothing,
\* and the page is not reloaded.
\* ------------------------------------------------------------------------
\* the server answers GET /api/status with its counts
ServerStatus ==
    /\ script = "scripts_api.js"
    /\ statusPending
    /\ statusSnap = NoSnap
    /\ statusSnap' = [total |-> srvTotal, invalid |-> srvInvalid]
    /\ UNCHANGED <<apiVars, srvTotal, srvInvalid, srvAnswers>>

\* the answer reaches the page: loadStatus resumes
StatusDelivered ==
    /\ statusSnap # NoSnap
    /\ StatusResponse("success", statusSnap.total, statusSnap.invalid)
    /\ statusSnap' = NoSnap
    /\ UNCHANGED <<srvTotal, srvInvalid, srvAnswers>>

\* the server's reserve of a category succeeds
ServerAdmits(tip) == srvTotal > 0 /\ (tip = "invalid" => srvInvalid > 0)

\* the server handles a POST /api/reserve that has not been answered yet
ServerReserve(tip) ==
    /\ script = "scripts_api.js"
    /\ awaiting[tip] > Len(srvAnswers[tip])
    /\ srvAnswers' =
           [srvAnswers EXCEPT
               ![tip] = Append(@, IF ServerAdmits(tip) THEN "success"
                                  ELSE "failure")]
    /\ srvTotal' = IF ServerAdmits(tip) THEN srvTotal - 1 ELSE srvTotal
    /\ srvInvalid' = IF ServerAdmits(tip) /\ tip = "invalid"
                      THEN srvInvalid - 1 ELSE srvInvalid
    /\ UNCHANGED <<apiVars, statusSnap>>

\* the answer reaches the page: the submit handler resumes
ReserveDelivered(tip) ==
    /\ srvAnswers[tip] # << >>
    /\ ReserveResponse(tip, Head(srvAnswers[tip]))
    /\ srvAnswers' = [srvAnswers EXCEPT ![tip] = Tail(@)]
    /\ UNCHANGED <<srvTotal, srvInvalid, statusSnap>>

MirrorNext ==
    \/ ServerStatus /\ UNCHANGED notMirror
    \/ StatusDelivered /\ UNCHANGED notMirror
    \/ \E tip \in TipMjesta, file \in FileInputs :
           ApiSubmit(tip, file) /\ UNCHANGED serverVars /\ UNCHANGED notMirror
    \/ \E tip \in TipMjesta : ServerReserve(tip) /\ UNCHANGED notMirror
    \/ \E tip \in TipMjesta : ReserveDelivered(tip) /\ UNCHANGED notMirror

\* ------------------------------------------------------------------------
\* Arduino sketch : constants and functions
\* ------------------------------------------------------------------------
NUM_SPOTS == 5
DISTANCE_THRESHOLD == 20
\* the timeout given to pulseIn, in microseconds
PulseTimeout == 30000

\* pulseIn: 0 when no echo arrived within the timeout, else the length of
\* the echo pulse in microseconds
Durations == {0, 583, 875, 1166, 1167, 1458, 1750, PulseTimeout - 1}

\* int distance = duration * 0.0343 / 2, truncated
Distance(duration) == (duration * 343) \div 20000

\* boolean occupied = (distance < DISTANCE_THRESHOLD)
Occupied(distance) == distance < DISTANCE_THRESHOLD

\* a boolean stored in the int lastOccupancyState
BoolToInt(b) == IF b THEN 1 ELSE 0

ChangedAlways(occupied, last) == TRUE

\* if (occupied != spots[i].lastOccupancyState)
Changed(occupied, last) == BoolToInt(occupied) # last

\* String status = occupied ? "OCCUPIED" : "FREE"
Status(occupied) == IF occupied THEN "OCCUPIED" ELSE "FREE"

\* the readings of the scenario, in cm
ScenarioReadings == <<25, 15, 15, 30>>

NoReading == [spot |-> 0, duration |-> 0, distance |-> 0, occupied |-> FALSE,
              last |-> 0, sends |-> 0]

NoReports == [first |-> "NONE", prev |-> "NONE", last |-> "NONE"]

\* ------------------------------------------------------------------------
\* Arduino sketch : operations
\* ------------------------------------------------------------------------
SketchInit ==
    /\ lastOccupancyState = [i \in 0 .. NUM_SPOTS - 1 |-> 0]
    /\ sketchPc = "idle"
    /\ sensorIndex = 0
    /\ lastReading = NoReading
    /\ scenario = [pos |-> 0, sends |-> << >>]
    /\ reports = NoReports
    /\ serverStatus = "NONE"
    /\ dropped = 0

\* loop(): CHECK_INTERVAL has passed, checkAllSensors is called.
StartPoll ==
    /\ sketchPc = "idle"
    /\ sketchPc' = "check"
    /\ sensorIndex' = 0
    /\ UNCHANGED <<lastOccupancyState, lastReading, scenario>>

\* the scenario after a reading of spot 1
ScenarioAfter(distance, sent, occupied) ==
    IF scenario.pos < 0 \/ scenario.pos >= Len(ScenarioReadings) THEN
        [pos |-> -1, sends |-> << >>]
    ELSE IF distance # ScenarioReadings[scenario.pos + 1] THEN
        [pos |-> -1, sends |-> << >>]
    ELSE [pos |-> scenario.pos + 1,
          sends |-> IF sent
                    THEN Append(scenario.sends,
                                <<scenario.pos, Status(occupied)>>)
                    ELSE scenario.sends]

\* One iteration of the for loop of checkAllSensors, up to the end of the
\* iteration or to the while loop of sendToServer.  duration is what
\* pulseIn returns, connected what client.connect returns.
CheckSensor(duration, connected) ==
    LET i == sensorIndex
        distance == Distance(duration)
        occupied == Occupied(distance)
        changed == Changed(occupied, lastOccupancyState[i])
    IN
    /\ sketchPc = "check"
    /\ sensorIndex < NUM_SPOTS
    /\ lastReading' = [spot |-> i + 1, duration |-> duration,
                       distance |-> distance, occupied |-> occupied,
                       last |-> lastOccupancyState[i],
                       sends |-> IF changed THEN 1 ELSE 0]
    /\ lastOccupancyState' =
           IF changed
           THEN [lastOccupancyState EXCEPT ![i] = BoolToInt(occupied)]
           ELSE lastOccupancyState
    /\ scenario' = IF i = 0 THEN ScenarioAfter(distance, changed, occupied)
                   ELSE scenario
    /\ IF changed /\ connected
       THEN sketchPc' = "response" /\ sensorIndex' = sensorIndex
       ELSE sketchPc' = "check" /\ sensorIndex' = sensorIndex + 1

\* The server closes the connection: the while loop of sendToServer ends,
\* client.stop(), and the for loop goes on.
ConnectionClosed ==
    /\ sketchPc = "response"
    /\ sketchPc' = "check"
    /\ sensorIndex' = sensorIndex + 1
    /\ UNCHANGED <<lastOccupancyState, lastReading, scenario>>

\* The for loop ends and checkAllSensors returns to loop().
EndPoll ==
    /\ sketchPc = "check"
    /\ sensorIndex = NUM_SPOTS
    /\ sketchPc' = "idle"
    /\ UNCHANGED <<lastOccupancyState, sensorIndex, lastReading, scenario>>

\* What an iteration of the for loop does to the reports of the watched
\* spot: sendToServer is called with the new status (l.135); the request
\* reaches the server when client.connect succeeded (l.165-180), and is
\* given up when it failed (l.165-168).
Reported(connected) ==
    IF lastReading'.spot = watched + 1 /\ lastReading'.sends = 1
    THEN /\ reports' =
                [first |-> IF reports.first = "NONE"
                           THEN Status(lastReading'.occupied)
                           ELSE reports.first,
                 prev |-> reports.last,
                 last |-> Status(lastReading'.occupied)]
         /\ serverStatus' = IF connected THEN Status(lastReading'.occupied)
                            ELSE serverStatus
         /\ dropped' = IF connected THEN 0
                       ELSE IF dropped = 0 THEN 1 ELSE 3 - dropped
         /\ UNCHANGED watched
    ELSE UNCHANGED reportVars

\* the sketch with the reports of the watched spot
ReportsNext ==
    \/ StartPoll /\ UNCHANGED notSketch
    \/ \E duration \in Durations, connected \in BOOLEAN :
           /\ CheckSensor(duration, connected)
           /\ Reported(connected)
           /\ UNCHANGED notReports
    \/ ConnectionClosed /\ UNCHANGED notSketch
    \/ EndPoll /\ UNCHANGED notSketch

SketchNext ==
    \/ StartPoll /\ UNCHANGED notSketch
    \/ \E duration \in Durations, connected \in BOOLEAN :
           CheckSensor(duration, connected) /\ UNCHANGED notSketch
    \/ ConnectionClosed /\ UNCHANGED notSketch
    \/ EndPoll /\ UNCHANGED notSketch

\* ------------------------------------------------------------------------
\* Specifications
\* ------------------------------------------------------------------------
\* scripts.js in a single tab
InitLocal ==
    /\ script = "scripts.js"
    /\ LocalInit
    /\ ApiInit
    /\ SketchInit
    /\ watched = 0

SpecLocal == InitLocal /\ [][LocalNext]_vars

\* scripts_api.js
InitApi ==
    /\ script = "scripts_api.js"
    /\ LocalInit
    /\ ApiInit
    /\ SketchInit
    /\ watched = 0

SpecApi == InitApi /\ [][ApiNext]_vars

\* the reservation page with either script
InitLedger ==
    /\ script \in Scripts
    /\ LocalInit
    /\ ApiInit
    /\ SketchInit
    /\ watched = 0

LedgerNext ==
    \/ LocalNext
    \/ ApiNext

SpecLedger == InitLedger /\ [][LedgerNext]_vars

\* scripts.js in two tabs
SpecTabs == InitLocal /\ [][TabsNext]_vars

\* the sensor sketch
SpecSketch == InitLocal /\ [][SketchNext]_vars

\* The sketch's own steps: loop() runs again after CHECK_INTERVAL and
\* pulseIn returns within its timeout, so the sketch goes on whenever it is
\* not in the while loop of sendToServer.  That loop ends only when the
\* server closes the connection, which nothing obliges it to do.
SketchStep ==
    \/ StartPoll /\ UNCHANGED notSketch
    \/ \E duration \in Durations, connected \in BOOLEAN :
           CheckSensor(duration, connected) /\ UNCHANGED notSketch
    \/ EndPoll /\ UNCHANGED notSketch

\* the sensor sketch with its scheduling
SpecSketchFair == InitLocal /\ [][SketchNext]_vars /\ WF_vars(SketchStep)

\* the sensor sketch with the reports of any one of its spots
InitReports ==
    /\ script = "scripts.js"
    /\ LocalInit
    /\ ApiInit
    /\ SketchInit
    /\ watched \in 0 .. NUM_SPOTS - 1

SpecReports == InitReports /\ [][ReportsNext]_vars

\* scripts_api.js with its server
SpecMirror == InitApi /\ [][MirrorNext]_vars

\* scripts.js with the ledger's release
SpecRelease == InitLocal /\ [][ReleaseNext]_vars

\* ------------------------------------------------------------------------
\* Properties
\* ------------------------------------------------------------------------
\* the outcomes of a submit that was not refused for its input
LocalDecisions ==
    {"CapacityExhausted", "RestrictedCapacityExhausted", "Reserved"}
ApiDecisions ==
    {"CapacityExhausted", "RestrictedCapacityExhausted", "Requested"}
\* the outcomes of a refused submit of scripts.js
Rejections ==
    {"InvalidInput", "CapacityExhausted", "RestrictedCapacityExhausted"}

\* the counts declared by scripts_api.js
ApiDeclared ==
    [slobodnaMjesta |-> API_TOTAL_SPOTS, invalidMjesta |-> API_INVALID_SPOTS]

\* the number of 'invalid' entries of a sequence of tipMjesta values
RECURSIVE CountInvalid(_)
CountInvalid(seq) ==
    IF seq = << >> THEN 0
    ELSE (IF Head(seq) = "invalid" THEN 1 ELSE 0) + CountInvalid(Tail(seq))

\* C1: in scripts.js (single tab), over all submissions and page reloads,
\* the successful reservations never exceed TOTAL_SPOTS and the successful
\* 'invalid' reservations never exceed the restricted capacity of 1.
C1_NeverOversubscribed ==
    /\ Len(issued) <= TOTAL_SPOTS
    /\ issuedInvalid <= INVALID_SPOTS

\* C2: invalidMjesta <= slobodnaMjesta after every reserve call of either
\* category, starting from the declared counts (scripts.js; scripts_api.js
\* while the counts are the declared ones less the reservations made).
C2_RestrictedWithinTotal ==
    /\ script = "scripts.js" => invalidMjesta[1] <= slobodnaMjesta[1]
    /\ (script = "scripts_api.js" /\ apiBase = ApiDeclared)
           => apiInvalidMjesta <= apiSlobodnaMjesta

\* C3: in scripts.js, after every submission and every page reload,
\* 0 <= slobodnaMjesta <= TOTAL_SPOTS and 0 <= invalidMjesta <= 1.
C3_CountsInRange ==
    /\ 0 <= slobodnaMjesta[1] /\ slobodnaMjesta[1] <= TOTAL_SPOTS
    /\ 0 <= invalidMjesta[1] /\ invalidMjesta[1] <= INVALID_SPOTS

\* C3 witness: the page was reloaded after the last spot was reserved.
C3_Witness ==
    /\ localStorage # NoData
    /\ localStorage.slobodnaMjesta = 0
    /\ lastSubmit[1] = NoSubmit

\* C4: a submit with valid input made when the free total is 0 gets the
\* general capacity-exhausted outcome whatever its category, also when the
\* restricted count is 0 too: the general check runs first.
C4_GeneralCheckFirst ==
    /\ (lastSubmit[1].outcome \in LocalDecisions
          /\ lastSubmit[1].before.slobodnaMjesta = 0)
           => lastSubmit[1].outcome = "CapacityExhausted"
    /\ (apiLastEvent.outcome \in ApiDecisions
          /\ apiLastEvent.before.slobodnaMjesta = 0)
           => apiLastEvent.outcome = "CapacityExhausted"

\* C4 witness: an 'invalid' submit made at 0 free and 0 restricted spots
\* was refused as capacity exhausted.
C4_Witness ==
    /\ lastSubmit[1].tipMjesta = "invalid"
    /\ lastSubmit[1].before.slobodnaMjesta = 0
    /\ lastSubmit[1].before.invalidMjesta = 0
    /\ lastSubmit[1].outcome = "CapacityExhausted"

\* C5: a submit with valid input made when the restricted count is 0 and
\* the free total is positive is refused as restricted-capacity exhausted
\* when it is 'invalid', and passes when it is 'standard' (scripts.js
\* reserves; scripts_api.js sends the request to the server).
C5_RestrictedExhausted ==
    /\ (lastSubmit[1].outcome \in LocalDecisions
          /\ lastSubmit[1].before.invalidMjesta = 0
          /\ lastSubmit[1].before.slobodnaMjesta > 0)
           => lastSubmit[1].outcome =
                  IF lastSubmit[1].tipMjesta = "invalid"
                  THEN "RestrictedCapacityExhausted" ELSE "Reserved"
    /\ (apiLastEvent.outcome \in ApiDecisions
          /\ apiLastEvent.before.invalidMjesta = 0
          /\ apiLastEvent.before.slobodnaMjesta > 0)
           => apiLastEvent.outcome =
                  IF apiLastEvent.tipMjesta = "invalid"
                  THEN "RestrictedCapacityExhausted" ELSE "Requested"

\* C5 witness: with 5 spots and 1 restricted, after one 'invalid'
\* reservation a second 'invalid' submit was refused at 4 free spots.
C5_Witness ==
    /\ apiBase = ApiDeclared
    /\ apiReserved = <<"invalid">>
    /\ apiLastEvent.tipMjesta = "invalid"
    /\ apiLastEvent.before.slobodnaMjesta = 4
    /\ apiLastEvent.before.invalidMjesta = 0
    /\ apiLastEvent.outcome = "RestrictedCapacityExhausted"

\* the scenario of C6: four standard reservations, then one restricted
ScenarioReserved ==
    <<"standard", "standard", "standard", "standard", "invalid">>

\* C6: a successful reservation takes exactly 1 from the free total, 1 from
\* the restricted count iff it is 'invalid', and in scripts.js adds exactly
\* 1 to reservationCounter; with 5 spots and 1 restricted, four standard
\* reservations and one restricted leave 0 and 0, and the next standard
\* submit is refused as capacity exhausted.
C6_ReservationEffect ==
    /\ lastSubmit[1].outcome = "Reserved" =>
           /\ lastSubmit[1].after.slobodnaMjesta =
                  lastSubmit[1].before.slobodnaMjesta - 1
           /\ lastSubmit[1].after.invalidMjesta =
                  lastSubmit[1].before.invalidMjesta
                    - (IF lastSubmit[1].tipMjesta = "invalid" THEN 1 ELSE 0)
           /\ lastSubmit[1].after.reservationCounter =
                  lastSubmit[1].before.reservationCounter + 1
           /\ Page(1) = lastSubmit[1].after
    /\ apiLastEvent.outcome = "Reserved" =>
           /\ apiLastEvent.after.slobodnaMjesta =
                  apiLastEvent.before.slobodnaMjesta - 1
           /\ apiLastEvent.after.invalidMjesta =
                  apiLastEvent.before.invalidMjesta
                    - (IF apiLastEvent.tipMjesta = "invalid" THEN 1 ELSE 0)
    /\ apiSlobodnaMjesta = apiBase.slobodnaMjesta - Len(apiReserved)
    /\ apiInvalidMjesta = apiBase.invalidMjesta - CountInvalid(apiReserved)
    /\ (apiBase = ApiDeclared /\ apiReserved = ScenarioReserved) =>
           /\ apiSlobodnaMjesta = 0
           /\ apiInvalidMjesta = 0
           /\ (apiLastEvent.tipMjesta = "standard"
                 /\ apiLastEvent.outcome \in ApiDecisions)
                  => apiLastEvent.outcome = "CapacityExhausted"

\* C6 witness: the scenario was run and its last standard submit refused.
C6_Witness ==
    /\ apiBase = ApiDeclared
    /\ apiReserved = ScenarioReserved
    /\ apiLastEvent.tipMjesta = "standard"
    /\ apiLastEvent.outcome = "CapacityExhausted"

\* C7: in scripts.js reservationCounter starts at 0, never decreases, is
\* strictly greater after each successful reservation than after the one
\* before, and is left alone by every refused submit; no two reservations
\* are issued the same counter value, over submissions and page reloads.
C7_CounterMonotonic ==
    /\ reservationCounter[1] = 0
    /\ [](\A j, k \in 1 .. Len(issued) : j < k => issued[j] < issued[k])
    /\ [](lastSubmit[1].outcome \in Rejections =>
              /\ lastSubmit[1].after.reservationCounter =
                     lastSubmit[1].before.reservationCounter
              /\ reservationCounter[1] =
                     lastSubmit[1].before.reservationCounter)
    /\ [](lastSubmit[1].outcome = "Reserved" =>
              /\ lastSubmit[1].after.reservationCounter >
                     lastSubmit[1].before.reservationCounter
              /\ issued[Len(issued)] = lastSubmit[1].after.reservationCounter)
    /\ [][reservationCounter'[1] >= reservationCounter[1]]_vars

\* C7 witness: more reservations than spots were issued (so the page was
\* reloaded in between) and the last submit was refused.
C7_Witness ==
    /\ Len(issued) > TOTAL_SPOTS
    /\ lastSubmit[1].outcome = "RestrictedCapacityExhausted"

\* C8: a distance read that timed out (pulseIn returned 0) gives
\* occupied = false, and so no OCCUPIED report.
C8_TimeoutIsFree ==
    (lastReading.spot # 0 /\ lastReading.duration = 0)
        => /\ ~lastReading.occupied
           /\ ~(lastReading.sends = 1 /\ Status(lastReading.occupied) = "OCCUPIED")

\* C9: each iteration of checkAllSensors calls sendToServer once if
\* occupied (distance < 20) differs from the spot's lastOccupancyState and
\* not at all otherwise; from free, the readings 25, 15, 15, 30 send only
\* at index 1 (OCCUPIED) and index 3 (FREE).
C9_SendsOnChangeOnly ==
    /\ lastReading.spot # 0 =>
           /\ lastReading.occupied = (lastReading.distance < 20)
           /\ lastReading.sends =
                  IF lastReading.occupied # (lastReading.last = 1)
                  THEN 1 ELSE 0
    /\ scenario.pos = Len(ScenarioReadings) =>
           scenario.sends = << <<1, "OCCUPIED">>, <<3, "FREE">> >>

\* C9 witness: spot 1 read 25, 15, 15, 30 in its first four polls.
C9_Witness == scenario.pos = Len(ScenarioReadings)

\* C10: in scripts_api.js the check of a submit and its decrement are one
\* atomic unit, so with overlapping submits that the server all answers
\* with success the counts never become negative.
C10_NeverNegative ==
    /\ apiSlobodnaMjesta >= 0
    /\ apiInvalidMjesta >= 0


\* C11: in scripts.js the state restored by loadData at page start equals
\* the state last written by saveData, also when a value is 0.
C11_ReloadRestoresSaved ==
    (localStorage # NoData /\ lastSubmit[1] = NoSubmit)
        => Page(1) = localStorage


\* C12: in scripts_api.js a network failure or a non-success answer during
\* loadStatus or during the reserve POST leaves slobodnaMjesta and
\* invalidMjesta as they were; the counts of a page change only when an
\* answer with success = true resumes loadStatus or a submit handler.
C12_FailuresKeepCounts ==
    /\ [](apiLastEvent.outcome \in {"ServerRejected", "NetworkUnavailable"}
             => apiLastEvent.after = apiLastEvent.before)
    /\ [][ApiPage' # ApiPage =>
              \/ /\ statusPending /\ ~statusPending'
                 /\ apiLastStatus' = "success"
              \/ /\ InFlight' = InFlight - 1
                 /\ apiLastEvent'.outcome = "Reserved"
              \/ /\ statusPending'
                 /\ apiLastStatus' = NoStatus
                 /\ apiLastEvent' = NoSubmit]_vars

\* C12 witness: after a reservation, loadStatus got a response that was
\* not ok and a reserve POST failed in the network.
C12_Witness ==
    /\ apiLastStatus = "notOk"
    /\ apiLastEvent.outcome = "NetworkUnavailable"
    /\ apiReserved # << >>


\* C13: with two tabs of scripts.js over one localStorage record, each
\* page reads the record only at its own start and overwrites it after
\* each of its own reservations: the stored record is always the one of the
\* last reservation, whichever tab made it, and each page keeps its own
\* counts within their ranges.  The reservations of both tabs together are
\* not kept within TOTAL_SPOTS, nor their counter values distinct: see the
\* witness.
C13_LastWriterWins ==
    /\ localStorage # NoData =>
           /\ Len(issued) > 0
           /\ localStorage.reservationCounter = issued[Len(issued)]
    /\ \A t \in Tabs :
           /\ 0 <= slobodnaMjesta[t] /\ slobodnaMjesta[t] <= TOTAL_SPOTS
           /\ 0 <= invalidMjesta[t] /\ invalidMjesta[t] <= INVALID_SPOTS

\* C13 witness: more reservations than TOTAL_SPOTS were made and two of
\* them carry the same counter value, while each page has reserved no more
\* than the declared total and counted only its own reservations.
C13_Witness ==
    /\ Len(issued) > TOTAL_SPOTS
    /\ \E j, k \in 1 .. Len(issued) : j < k /\ issued[j] = issued[k]
    /\ reservationCounter[1] + reservationCounter[2] = Len(issued)
    /\ \A t \in Tabs :
           slobodnaMjesta[t] = TOTAL_SPOTS - reservationCounter[t]


\* C14 (as claimed): for every ledger state and every category,
\* release(category) followed at once by reserve(category) leaves the free
\* total, the restricted count and reservationCounter exactly as they were
\* before the release.
C14_RoundTrip ==
    lastRelease.stage = "reserved" => Page(1) = lastRelease.before

\* C14 (amended): when the free total was below TOTAL_SPOTS and, for the
\* restricted category, the restricted count below its capacity, release
\* followed at once by reserve of the same category restores the free total
\* and the restricted count, and reservationCounter is greater by one.
C14_RoundTripBelowCapacity ==
    (/\ lastRelease.stage = "reserved"
     /\ lastRelease.before.slobodnaMjesta < TOTAL_SPOTS
     /\ (lastRelease.tipMjesta = "invalid"
            => lastRelease.before.invalidMjesta < INVALID_SPOTS))
        => /\ slobodnaMjesta[1] = lastRelease.before.slobodnaMjesta
           /\ invalidMjesta[1] = lastRelease.before.invalidMjesta
           /\ reservationCounter[1] =
                  lastRelease.before.reservationCounter + 1
           /\ localStorage = Page(1)

\* C14 witness: a restricted spot was released at 0 restricted spots and
\* fewer than TOTAL_SPOTS free ones, and reserved again at once.
C14_Witness ==
    /\ lastRelease.stage = "reserved"
    /\ lastRelease.tipMjesta = "invalid"
    /\ lastRelease.before.invalidMjesta = 0
    /\ lastRelease.before.slobodnaMjesta < TOTAL_SPOTS
    /\ lastSubmit[1].outcome = "Reserved"


\* C15: every call of checkAllSensors (with the sendToServer calls it
\* makes) returns to loop(), whatever the server does, also when the server
\* accepts the connection and never closes it.
C15_PollReturns == (sketchPc = "check") ~> (sketchPc = "idle")


\* C16: a refused submit is a no-op on the ledger.  In scripts.js a submit
\* refused for an empty plate, at 0 free spots, or as 'invalid' at 0
\* restricted spots leaves slobodnaMjesta, invalidMjesta, reservationCounter
\* and the localStorage record unchanged (and issues nothing); in
\* scripts_api.js a submit refused for its file or by a local capacity
\* check changes no count and sends no request.
C16_RefusedIsNoOp ==
    /\ [][(/\ lastSubmit'[1] # lastSubmit[1]
           /\ lastSubmit'[1].tipMjesta \in TipMjesta
           /\ \/ lastSubmit'[1].outcome \in Rejections
              \/ lastSubmit'[1].before.slobodnaMjesta = 0
              \/ /\ lastSubmit'[1].tipMjesta = "invalid"
                 /\ lastSubmit'[1].before.invalidMjesta = 0)
              => /\ lastSubmit'[1].before = Page(1)
                 /\ UNCHANGED <<slobodnaMjesta, invalidMjesta,
                                reservationCounter, localStorage, issued,
                                issuedInvalid>>]_vars
    /\ [][(/\ apiLastEvent' # apiLastEvent
           /\ apiLastEvent'.outcome \in Rejections)
              => UNCHANGED <<apiSlobodnaMjesta, apiInvalidMjesta, awaiting,
                             apiBase, apiReserved>>]_vars

\* C16 witness: after a reservation was stored, a submit with an empty
\* plate was refused and the page and the stored record are as before it.
C16_Witness ==
    /\ lastSubmit[1].outcome = "InvalidInput"
    /\ localStorage # NoData
    /\ localStorage = lastSubmit[1].before
    /\ Page(1) = lastSubmit[1].before


\* the status that lastOccupancyState of the watched spot stands for
SensorStatus == Status(lastOccupancyState[watched] = 1)

\* C17 (as claimed): lastOccupancyState is set whatever becomes of the
\* report; a report whose connect failed is not sent again while the
\* reading stays the same; and from then until the next transition the
\* status the server got last for the spot differs from lastOccupancyState.
C17_ServerDiffersAfterDrop ==
    dropped # 0 => serverStatus # SensorStatus

\* C17 (amended): as claimed, but the server's last status differs from
\* lastOccupancyState exactly after an odd number of reports given up in a
\* row; after an even number the two are equal again (once the server has
\* got a report of the spot at all).
C17_ServerDiffersAfterOddDrops ==
    /\ [](dropped = 1 => serverStatus # SensorStatus)
    /\ []((dropped = 2 /\ serverStatus # "NONE")
              => serverStatus = SensorStatus)
    /\ []((lastReading.spot # 0 /\ lastReading.sends = 1) =>
              lastOccupancyState[lastReading.spot - 1]
                  = BoolToInt(lastReading.occupied))
    /\ [][lastOccupancyState'[watched] = lastOccupancyState[watched]
              => UNCHANGED <<reports, serverStatus, dropped>>]_vars

\* C17 witness: the server got OCCUPIED, the report of FREE was given up,
\* and a later poll read the spot free again and sent nothing.
C17_Witness ==
    /\ dropped = 1
    /\ serverStatus = "OCCUPIED"
    /\ lastOccupancyState[watched] = 0
    /\ lastReading.spot = watched + 1
    /\ lastReading.sends = 0


\* C19: for each spot the statuses passed to sendToServer alternate and
\* start with OCCUPIED: the first report of a spot is never FREE and no two
\* reports of it in a row carry the same status, whatever the readings.
C19_ReportsAlternate ==
    /\ reports.first \in {"NONE", "OCCUPIED"}
    /\ (reports.first = "NONE") = (reports.last = "NONE")
    /\ reports.last # "NONE" => reports.prev # reports.last
    /\ reports.last # "NONE" => reports.last = SensorStatus

\* C19 witness: the spot was reported OCCUPIED, FREE and OCCUPIED again,
\* the last time after a read that timed out.
C19_Witness ==
    /\ reports = [first |-> "OCCUPIED", prev |-> "FREE", last |-> "OCCUPIED"]
    /\ lastReading.spot = watched + 1
    /\ lastReading.duration = 0
    /\ lastReading.sends = 1


\* C18: in scripts_api.js, with this page as the only client of a server
\* that decrements its counts on each successful reserve, whenever no
\* request is in flight after a successful loadStatus, slobodnaMjesta is
\* the server's available_total and invalidMjesta its available_invalid.
C18_MirrorConsistent ==
    (apiLastStatus = "success" /\ ~statusPending /\ InFlight = 0)
        => /\ apiSlobodnaMjesta = srvTotal
           /\ apiInvalidMjesta = srvInvalid

====
